---------------------------- MODULE Spec2Model ----------------------------
(***************************************************************************)
(* A model of the ridiculous command-line driver (src/src/main.rs): the    *)
(* run set-up of main, the bounded-parallel batch scheduler, the           *)
(* interactive loop, the retry loop of process_single_book, and the        *)
(* persisted ProcessingState, together with the already-decrypted          *)
(* detection of BookInfo (src/src/types.rs).  Specifications of their own  *)
(* cover the content-file resolution of BookInfo::new, decrypt_v11_book    *)
(* (src/src/gui.rs), the key derivation, and the special modes of main.    *)
(***************************************************************************)
EXTENDS Integers, Sequences, FiniteSets, TLC

(* ------------------------------ bounds -------------------------------- *)
\* Number of books find_books discovers in the library.
NBooks == 2
\* Number of consecutive runs of the program over the same library.
MaxRuns == 2
\* Cap on the calls of the decryptor counted for one process_single_book.
MaxCalls == 4
\* Largest value of --parallel that is tried.
MaxParallel == 2
\* Largest number of failures an earlier state file holds for one book.
MaxPrior == 4
\* Largest number of entries of a book directory.
MaxFiles == 3
\* Largest number of entries of a V11 archive.
MaxEntries == 2
\* Largest number of characters a decrypted key-file text has beyond KeyEnd.
MaxExtra == 1
\* The books a scan of the GUI finds, and the background threads of the GUI
\* alive at one time.
MaxGuiBooks == 2
MaxThreads == 2

(* ------------------------- program constants -------------------------- *)
\* let mut retries = 3;
RetryBudget == 3
\* (state.completed.len() + state.failed.len()) % 5 == 0
CheckpointInterval == 5
\* #[arg(long, default_value = "4")] parallel
DefaultParallel == 4
\* if data_file.len() < 32
MinKeyFile == 32
\* &plaintext_str[68..84], if plaintext_str.len() < 84
KeyStart == 68
KeyEnd == 84
\* [0; 16]: the size of a key, of an IV and of an AES block
BlockSize == 16

Books == 1..NBooks
None == "None"

(* ----------------------- error messages (text) ------------------------ *)
\* An error message is the sequence of its characters, so that the
\* classification below is computed on the text as the code computes it.
ErrorText ==
    [      \* "Connection timeout occurred" (test.rs:84)
      ConnectionTimeout |->
        <<"C","o","n","n","e","c","t","i","o","n"," ","t","i","m","e","o","u","t"," ","o","c","c","u","r","r","e","d">>,
      \* "Network unreachable" (test.rs:85)
      NetworkUnreachable |->
        <<"N","e","t","w","o","r","k"," ","u","n","r","e","a","c","h","a","b","l","e">>,
      \* "Temporary failure" (test.rs:86)
      TemporaryFailure |->
        <<"T","e","m","p","o","r","a","r","y"," ","f","a","i","l","u","r","e">>,
      \* "IO error: broken pipe" (test.rs:87)
      IoBrokenPipe |->
        <<"I","O"," ","e","r","r","o","r",":"," ","b","r","o","k","e","n"," ","p","i","p","e">>,
      \* "Authentication failed" (test.rs:88)
      AuthenticationFailed |->
        <<"A","u","t","h","e","n","t","i","c","a","t","i","o","n"," ","f","a","i","l","e","d">>,
      \* "File not found" (test.rs:89)
      FileNotFound |->
        <<"F","i","l","e"," ","n","o","t"," ","f","o","u","n","d">>,
      \* "Data file too small: 4 bytes" (main.rs:351)
      DataTooSmall |->
        <<"D","a","t","a"," ","f","i","l","e"," ","t","o","o"," ","s","m","a","l","l",":"," ","4"," ","b","y","t","e","s">>,
      \* "Decryption failed: Unpad Error" (main.rs:364)
      KeyUnpad |->
        <<"D","e","c","r","y","p","t","i","o","n"," ","f","a","i","l","e","d",":"," ","U","n","p","a","d"," ","E","r","r","o","r">>,
      \* "Failed to read data file: /lib/1/1.dat" (main.rs:348)
      ReadDataFile |->
        <<"F","a","i","l","e","d"," ","t","o"," ","r","e","a","d"," ","d","a","t","a"," ","f","i","l","e",":"," ","/","l","i","b","/","1","/","1",".","d","a","t">>,
      \* "Failed to read book file: /lib/1/1.epub" (main.rs:386)
      ReadBookFile |->
        <<"F","a","i","l","e","d"," ","t","o"," ","r","e","a","d"," ","b","o","o","k"," ","f","i","l","e",":"," ","/","l","i","b","/","1","/","1",".","e","p","u","b">>,
      \* "Connection timed out (os error 110)" (main.rs:333, the io::Error of fs::write)
      WriteTimedOut |->
        <<"C","o","n","n","e","c","t","i","o","n"," ","t","i","m","e","d"," ","o","u","t"," ","(","o","s"," ","e","r","r","o","r"," ","1","1","0",")">>
    ]
ErrIds == DOMAIN ErrorText
\* The errors a call of decrypt_book_with_original_logic produces in the
\* runs explored: a key file shorter than 32 bytes, and a timed-out write
\* of the output file.
DecryptErrors == {"DataTooSmall", "WriteTimedOut"}

UpperCase ==
    <<"A","B","C","D","E","F","G","H","I","J","K","L","M",
      "N","O","P","Q","R","S","T","U","V","W","X","Y","Z">>
LowerCase ==
    <<"a","b","c","d","e","f","g","h","i","j","k","l","m",
      "n","o","p","q","r","s","t","u","v","w","x","y","z">>
\* char::to_lowercase on the characters that occur in the messages.
to_lowercase_char(c) ==
    IF \E i \in 1..Len(UpperCase) : UpperCase[i] = c
    THEN LowerCase[CHOOSE i \in 1..Len(UpperCase) : UpperCase[i] = c]
    ELSE c
to_lowercase(s) == [i \in 1..Len(s) |-> to_lowercase_char(s[i])]
\* str::contains: pat occurs in s as a contiguous substring.
contains(s, pat) ==
    \E i \in 1..(Len(s) - Len(pat) + 1) : SubSeq(s, i, i + Len(pat) - 1) = pat
RetryablePatterns ==
    {<<"t","i","m","e","o","u","t">>,
     <<"c","o","n","n","e","c","t","i","o","n">>,
     <<"n","e","t","w","o","r","k">>,
     <<"t","e","m","p","o","r","a","r","y">>,
     <<"i","o"," ","e","r","r","o","r">>}
\* is_retryable_error: the lowercased message contains one of the patterns.
is_retryable_error(msg) ==
    \E pat \in RetryablePatterns : contains(to_lowercase(msg), pat)
\* The classification of each message of the table.
Retryable == [e \in ErrIds |-> is_retryable_error(ErrorText[e])]

(* ------------------------------- state -------------------------------- *)
VARIABLES
    library,           \* the content file of each discovered book
    config,            \* Config: output_directory and library_path
    current_dir,       \* std::env::current_dir(), as a location
    outputs,           \* the output files on disk: <<book, location>>
    snapshot,          \* ridiculous_state.json: whether it exists, whether it
                       \* can be read and parsed, and the state written to it
    run,               \* number of runs of main started so far
    args,              \* Args of the current run
    pc,                \* where main of the current run is
    state,             \* the ProcessingState main holds
    loaded,            \* its value when processing starts (main.rs:111-115)
    books_to_process,  \* the work set of the current run
    next,              \* index of the next handle (batch) or book (interactive)
    permits,           \* free permits of the semaphore
    task               \* per book: the process_single_book of the current run

\* The variables of the command-line driver.
mainVars == <<library, config, current_dir, outputs, snapshot, run, args, pc,
              state, loaded, books_to_process, next, permits, task>>

\* The functions of the repository that are checked on their own, each with
\* the input it is applied to and what it has produced.
VARIABLES
    book_dir,          \* BookInfo::new: the listing read_dir gives of the directory
    resolved,          \* BookInfo::new: its result, once it has returned
    archive,           \* decrypt_v11_book: the entries of the content file
    v11,               \* decrypt_v11_book: loop index, output archive, result
    keyfile,           \* the key file {id}.dat of the book being decrypted
    kd,                \* the decryption of that book: where it is, what it did
    invocation,        \* a run in a special mode: its Args, the server's answer
    sm,                \* that run: where it is, and what it has done so far
    app,               \* the GUI: the fields of RidiculousApp
    progress,          \* the GUI: the DecryptionProgress behind the mutex
    workers            \* the GUI: the background threads that are alive

resolveVars == <<book_dir, resolved>>
v11Vars == <<archive, v11>>
keyVars == <<keyfile, kd>>
modeVars == <<invocation, sm>>
guiVars == <<app, progress, workers>>
auxVars == <<resolveVars, v11Vars, keyVars, modeVars, guiVars>>
vars == <<mainVars, auxVars>>

\* BookInfo::new has not been called.
ResolveIdle == book_dir = <<>> /\ resolved = [pc |-> "idle"]
\* decrypt_v11_book has not been called.
V11Idle == archive = <<>> /\ v11 = [pc |-> "idle"]
\* No key file has been read.
NoKeyFile == [len |-> 0, pad_ok |-> FALSE, utf8_ok |-> FALSE, text |-> <<>>]
KeyIdle == keyfile = NoKeyFile /\ kd = [pc |-> "idle"]
\* Option<String> of a credential argument, by what validate looks at.
NoCred == [some |-> FALSE, len |-> 0]
Cred(n) == [some |-> TRUE, len |-> n]
\* No run in a special mode.
NoInvocation ==
    [diagnose |-> FALSE, validate_only |-> FALSE,
     device_id |-> NoCred, user_idx |-> NoCred, response |-> None]
ModeIdle == invocation = NoInvocation /\ sm = [pc |-> "idle", log |-> <<>>]
\* DecryptionProgress::default() (current_book: 0 for the empty string,
\* else the book named).
DefaultProgress ==
    [current |-> 0, total |-> 0, current_book |-> 0, successful |-> 0,
     failed |-> 0, is_complete |-> FALSE, errors |-> <<>>]
\* RidiculousApp::default()
DefaultApp ==
    [device_id |-> "", user_idx |-> "", state |-> "Setup", books |-> <<>>,
     selected_books |-> <<>>, error_message |-> ""]
\* The threads thread::spawn has started and that have not ended.
Threads == 1..MaxThreads
NoThread == [pc |-> "none", todo |-> <<>>, i |-> 0, result |-> None]
\* The window has been opened and nothing has been done in it.
GuiIdle ==
    /\ app = DefaultApp
    /\ progress = DefaultProgress
    /\ workers = [w \in Threads |-> NoThread]
AuxIdle == ResolveIdle /\ V11Idle /\ KeyIdle /\ ModeIdle /\ GuiIdle

\* The places an output file can be written to or looked for.
Locs == {"outdir", "libpath", "parent", "cwd"}

\* A content file: whether its name carries a version marker (".v"), and
\* whether it opens as a zip archive, and the number of entries it then has.
BookKinds ==
    { [marked |-> TRUE,  is_zip |-> TRUE,  zip_len |-> 1],  \* {id}.v11.epub
      [marked |-> FALSE, is_zip |-> FALSE, zip_len |-> 0],  \* {id}.epub, DRM
      [marked |-> FALSE, is_zip |-> TRUE,  zip_len |-> 1] } \* {id}.epub, plain

Configs ==
    [output_directory : {None, "outdir"}, library_path : {None, "libpath"}]

\* ProcessingState::default()
DefaultState == [completed |-> <<>>, failed |-> <<>>, in_progress |-> <<>>]

\* The task of a book that no process_single_book has touched in this run.
IdleTask ==
    [pc |-> "idle", retries |-> 0, calls |-> 0, delays |-> 0,
     lastErr |-> None, result |-> None]

\* No state file in the cache directory.
NoSnapshot == [exists |-> FALSE, readable |-> FALSE, data |-> DefaultState]

NoArgs == [force |-> FALSE, resume |-> FALSE, batch_mode |-> FALSE, parallel |-> 0]

Init ==
    /\ library \in [Books -> BookKinds]
    /\ config \in Configs
    /\ current_dir \in {"cwd", "parent"}
    /\ outputs = {}
    /\ snapshot = NoSnapshot
    /\ run = 0
    /\ args = NoArgs
    /\ pc = "idle"
    /\ state = DefaultState
    /\ loaded = DefaultState
    /\ books_to_process = <<>>
    /\ next = 1
    /\ permits = 0
    /\ task = [b \in Books |-> IdleTask]
    /\ AuxIdle

(* ------------------------------ helpers ------------------------------- *)
\* Vec::contains
Contains(seq, x) == \E i \in 1..Len(seq) : seq[i] = x

\* BookInfo.is_v11: book_filename.contains(".v")
is_v11(b) == library[b].marked

\* A load that recovers the state from a file it cannot parse.
load_processing_state_salvaging ==
    IF snapshot.exists THEN snapshot.data ELSE DefaultState
\* A load that never reads the file.
load_processing_state_empty == DefaultState
\* load_processing_state().unwrap_or_default(): the state of the file when
\* it exists and is read and parsed, the default state when there is no
\* file (Ok(default)) and when read_to_string or from_str fails (Err).
load_processing_state ==
    IF snapshot.exists /\ snapshot.readable THEN snapshot.data ELSE DefaultState

\* save_processing_state: the file holds the serialised state (the write is
\* taken to succeed; serde_json gives back the three lists as written).
save_processing_state(st) == [exists |-> TRUE, readable |-> TRUE, data |-> st]

\* get_output_path: the current directory joined with the output filename.
get_output_path(b) == <<b, current_dir>>

\* The location is_already_decrypted looks for the output file in.
detect_output_path(b) ==
    IF config.output_directory # None THEN <<b, "outdir">>
    ELSE IF config.library_path # None THEN <<b, "libpath">>
    ELSE <<b, "parent">>

\* BookInfo::is_already_decrypted
is_already_decrypted(b) ==
    \/ /\ ~is_v11(b) /\ ~library[b].marked
       /\ library[b].is_zip
       /\ library[b].zip_len > 0
    \/ detect_output_path(b) \in outputs

\* decrypt_book_content: the content file is read whole and decrypted as
\* one AES-CBC stream, whatever book_info.is_v11 says.
decrypt_book_content_scheme(b) == "whole_file"

\* LibraryFinder::find_books: the books of the library, in directory order.
find_books == [i \in 1..NBooks |-> i]

\* The filter of main that retries a completed book under --resume.
keep_book_ignoring_completed(b, force, resume, st) ==
    IF force THEN TRUE
    ELSE IF resume THEN TRUE
    ELSE ~is_already_decrypted(b)
\* The closure of the filter of main (main.rs:128-136).
keep_book(b, force, resume, st) ==
    IF force THEN TRUE
    ELSE IF resume THEN ~Contains(st.completed, b)
    ELSE ~is_already_decrypted(b)

\* A match that drops the Err arm: a failure is not recorded.
record_result_dropping_errors(st, b, res) ==
    IF res = "ok" THEN [st EXCEPT !.completed = Append(@, b)] ELSE st
\* A match whose Ok arm also runs for an Err: a failure is recorded in both
\* lists.
record_result_in_both(st, b, res) ==
    IF res = "ok"
    THEN [st EXCEPT !.completed = Append(@, b)]
    ELSE [st EXCEPT !.completed = Append(@, b), !.failed = Append(@, <<b, res>>)]
\* state.completed.push(book_id) / state.failed.push((book_id, e.to_string()))
record_result(st, b, res) ==
    IF res = "ok"
    THEN [st EXCEPT !.completed = Append(@, b)]
    ELSE [st EXCEPT !.failed = Append(@, <<b, res>>)]

\* A periodic save that never fires.
checkpoint_due_never(st) == FALSE
\* (state.completed.len() + state.failed.len()) % 5 == 0
checkpoint_due(st) ==
    (Len(st.completed) + Len(st.failed)) % CheckpointInterval = 0

(* ------------------------------- main --------------------------------- *)
\* main.rs:91-150: parse the arguments, load the state, find the books,
\* filter the work set, and enter the batch or the interactive processing.
StartRun(force, resume, batch_mode, parallel) ==
    /\ pc \in {"idle", "done", "nothing_to_do", "aborted"}
    /\ run < MaxRuns
    /\ LET st0 == IF resume THEN load_processing_state ELSE DefaultState
           Keep(b) == keep_book(b, force, resume, st0)
           work == SelectSeq(find_books, Keep)
       IN /\ state' = st0
          /\ loaded' = st0
          /\ books_to_process' = work
          /\ pc' = IF work = <<>> THEN "nothing_to_do"
                   ELSE IF batch_mode THEN "batch_spawn"
                   ELSE "interactive"
    /\ run' = run + 1
    /\ args' = [force |-> force, resume |-> resume,
                batch_mode |-> batch_mode, parallel |-> parallel]
    /\ next' = 1
    /\ permits' = 0
    /\ task' = [b \in Books |-> IdleTask]
    /\ UNCHANGED <<library, config, current_dir, outputs, snapshot>>
    /\ UNCHANGED auxVars

(* ------------------------ process_single_book ------------------------- *)
\* The retry arm that retries whatever the error.
retry_arm_any_error(t, e) == t.retries > 1
\* Err(e) if retries > 1 && is_retryable_error(&e)
retry_arm(t, e) == t.retries > 1 /\ Retryable[e]

\* One pass of the while loop of process_single_book (main.rs:289-299): a
\* call of decrypt_book_with_original_logic and the match on its result.
\* A successful call has written the output file (main.rs:326-333).
DecryptCall(b) ==
    /\ task[b].pc = "running"
    /\ task[b].retries > 0
    /\ task[b].calls < MaxCalls
    /\ \E outcome \in {"ok"} \cup DecryptErrors :
         IF outcome = "ok"
         THEN /\ outputs' = outputs \cup {get_output_path(b)}
              /\ task' = [task EXCEPT ![b].calls = @ + 1,
                                      ![b].result = "ok",
                                      ![b].pc = "returned"]
         ELSE /\ outputs' = outputs
              /\ IF retry_arm(task[b], outcome)
                 THEN \* the message is set and the task sleeps one second
                      task' = [task EXCEPT ![b].calls = @ + 1,
                                           ![b].lastErr = outcome,
                                           ![b].delays = @ + 1]
                 ELSE task' = [task EXCEPT ![b].calls = @ + 1,
                                           ![b].lastErr = outcome,
                                           ![b].result = outcome,
                                           ![b].pc = "returned"]
    /\ UNCHANGED <<library, config, current_dir, snapshot, run, args, pc,
                   state, loaded, books_to_process, next, permits>>
    /\ UNCHANGED auxVars

(* ------------------------ process_books_batch ------------------------- *)
\* main.rs:173-216: the semaphore is created and one task per book spawned.
BatchSpawn ==
    /\ pc = "batch_spawn"
    /\ permits' = args.parallel
    /\ task' = [b \in Books |->
                  IF Contains(books_to_process, b)
                  THEN [IdleTask EXCEPT !.pc = "waiting"]
                  ELSE IdleTask]
    /\ pc' = "batch_collect"
    /\ UNCHANGED <<library, config, current_dir, outputs, snapshot, run,
                   args, state, loaded, books_to_process, next>>
    /\ UNCHANGED auxVars

\* An acquire that does not wait for a free permit.
can_acquire_always(free) == TRUE
\* semaphore.acquire().await completes when a permit is free.
can_acquire(free) == free > 0

\* main.rs:193-203: the task takes a permit and enters process_single_book.
Acquire(b) ==
    /\ pc = "batch_collect"
    /\ task[b].pc = "waiting"
    /\ can_acquire(permits)
    /\ permits' = permits - 1
    /\ task' = [task EXCEPT ![b].pc = "running", ![b].retries = RetryBudget]
    /\ UNCHANGED <<library, config, current_dir, outputs, snapshot, run,
                   args, pc, state, loaded, books_to_process, next>>
    /\ UNCHANGED auxVars

\* A task that pushes its own result to the shared state when it ends.
Release_writes_state(b) ==
    /\ pc = "batch_collect"
    /\ task[b].pc = "returned"
    /\ permits' = permits + 1
    /\ state' = record_result(state, b, task[b].result)
    /\ task' = [task EXCEPT ![b] = [IdleTask EXCEPT !.pc = "finished",
                                                    !.result = task[b].result]]
    /\ UNCHANGED <<library, config, current_dir, outputs, snapshot, run,
                   args, pc, loaded, books_to_process, next>>
    /\ UNCHANGED auxVars
\* main.rs:205-213: the task ends; its locals, the permit among them, are
\* dropped and its handle becomes ready with (book.id, result).
Release(b) ==
    /\ pc = "batch_collect"
    /\ task[b].pc = "returned"
    /\ permits' = permits + 1
    /\ task' = [task EXCEPT ![b] = [IdleTask EXCEPT !.pc = "finished",
                                                    !.result = task[b].result]]
    /\ UNCHANGED <<library, config, current_dir, outputs, snapshot, run,
                   args, pc, state, loaded, books_to_process, next>>
    /\ UNCHANGED auxVars

\* A collecting loop that takes whichever handle is ready first.
Collect_any_finished ==
    /\ pc = "batch_collect"
    /\ next <= Len(books_to_process)
    /\ \E b \in Books :
         LET st == record_result(state, b, task[b].result)
         IN /\ task[b].pc = "finished"
            /\ state' = st
            /\ snapshot' = IF checkpoint_due(st)
                           THEN save_processing_state(st) ELSE snapshot
            /\ task' = [task EXCEPT ![b].pc = "recorded"]
    /\ next' = next + 1
    /\ pc' = IF next' > Len(books_to_process) THEN "final_save" ELSE pc
    /\ UNCHANGED <<library, config, current_dir, outputs, run, args,
                   loaded, books_to_process, permits>>
    /\ UNCHANGED auxVars
\* main.rs:219-233: the next handle is awaited, its result recorded, the
\* state saved when the number of records is a multiple of the interval;
\* after the last handle process_books_batch returns Ok.
Collect ==
    /\ pc = "batch_collect"
    /\ next <= Len(books_to_process)
    /\ LET b == books_to_process[next]
           st == record_result(state, b, task[b].result)
       IN /\ task[b].pc = "finished"
          /\ state' = st
          /\ snapshot' = IF checkpoint_due(st)
                         THEN save_processing_state(st) ELSE snapshot
          /\ task' = [task EXCEPT ![b].pc = "recorded"]
    /\ next' = next + 1
    /\ pc' = IF next' > Len(books_to_process) THEN "final_save" ELSE pc
    /\ UNCHANGED <<library, config, current_dir, outputs, run, args,
                   loaded, books_to_process, permits>>
    /\ UNCHANGED auxVars

(* --------------------- process_books_interactive ---------------------- *)
\* What read_line gives for the "Continue with next book? (y/n)" prompt:
\* a line (here its trimmed text) or an I/O error.
Answers == {"y", "Y", "n"}
IoError == "io_error"

\* main.rs:241-252: the loop takes the next book and enters
\* process_single_book.
InteractiveNext ==
    /\ pc = "interactive"
    /\ next <= Len(books_to_process)
    /\ task[books_to_process[next]].pc = "idle"
    /\ task' = [task EXCEPT ![books_to_process[next]].pc = "running",
                            ![books_to_process[next]].retries = RetryBudget]
    /\ UNCHANGED <<library, config, current_dir, outputs, snapshot, run,
                   args, pc, state, loaded, books_to_process, next, permits>>
    /\ UNCHANGED auxVars

\* main.rs:253-257, 273: a success is recorded and the state saved.
InteractiveOk ==
    /\ pc = "interactive"
    /\ next <= Len(books_to_process)
    /\ LET b == books_to_process[next]
           st == record_result(state, b, task[b].result)
       IN /\ task[b].pc = "returned"
          /\ task[b].result = "ok"
          /\ state' = st
          /\ snapshot' = save_processing_state(st)
          /\ task' = [task EXCEPT ![b] = [IdleTask EXCEPT !.pc = "recorded",
                                                          !.result = task[b].result]]
    /\ next' = next + 1
    /\ pc' = IF next' > Len(books_to_process) THEN "final_save" ELSE pc
    /\ UNCHANGED <<library, config, current_dir, outputs, run, args,
                   loaded, books_to_process, permits>>
    /\ UNCHANGED auxVars

\* main.rs:258-273: a failure is recorded and the user asked whether to
\* continue; a failed read_line returns the error from the function (and,
\* by the ? of main.rs:149, from main), any answer but "y" breaks the loop,
\* and "y" saves the state and goes on.
InteractiveFailed(input) ==
    /\ pc = "interactive"
    /\ next <= Len(books_to_process)
    /\ LET b == books_to_process[next]
           st == record_result(state, b, task[b].result)
       IN /\ task[b].pc = "returned"
          /\ task[b].result # "ok"
          /\ state' = st
          /\ task' = [task EXCEPT ![b] = [IdleTask EXCEPT !.pc = "recorded",
                                                          !.result = task[b].result]]
          /\ next' = next + 1
          /\ IF input = IoError
             THEN /\ pc' = "aborted"
                  /\ snapshot' = snapshot
             ELSE IF to_lowercase_char(input) # "y"
             THEN /\ pc' = "final_save"
                  /\ snapshot' = snapshot
             ELSE /\ pc' = IF next' > Len(books_to_process)
                           THEN "final_save" ELSE pc
                  /\ snapshot' = save_processing_state(st)
    /\ UNCHANGED <<library, config, current_dir, outputs, run, args,
                   loaded, books_to_process, permits>>
    /\ UNCHANGED auxVars

\* main.rs:152-156: the final save, the summary, and main returns Ok.
FinalSave ==
    /\ pc = "final_save"
    /\ snapshot' = save_processing_state(state)
    /\ pc' = "done"
    /\ UNCHANGED <<library, config, current_dir, outputs, run, args, state,
                   loaded, books_to_process, next, permits, task>>
    /\ UNCHANGED auxVars

(* --------------------------- environment ------------------------------ *)
\* Between two runs the user deletes an output file.
DeleteOutput(f) ==
    /\ pc \in {"done", "nothing_to_do", "aborted"}
    /\ run < MaxRuns
    /\ f \in outputs
    /\ outputs' = outputs \ {f}
    /\ UNCHANGED <<library, config, current_dir, snapshot, run, args, pc,
                   state, loaded, books_to_process, next, permits, task>>
    /\ UNCHANGED auxVars

Next ==
    \/ \E force \in BOOLEAN, resume \in BOOLEAN, parallel \in 0..MaxParallel :
         StartRun(force, resume, TRUE, parallel)
    \/ \E force \in BOOLEAN, resume \in BOOLEAN :
         StartRun(force, resume, FALSE, DefaultParallel)
    \/ \E b \in Books : DecryptCall(b)
    \/ BatchSpawn
    \/ \E b \in Books : Acquire(b)
    \/ \E b \in Books : Release(b)
    \/ Collect
    \/ InteractiveNext
    \/ InteractiveOk
    \/ \E input \in Answers \cup {IoError} : InteractiveFailed(input)
    \/ FinalSave
    \/ \E f \in Books \X Locs : DeleteOutput(f)

Spec == Init /\ [][Next]_vars

(* ------------------- runs over an earlier state file ------------------ *)
\* The state file earlier resumed runs have left: book 1 failed in k of them
\* (each run pushed its failure, main.rs:223), and book 2 was completed in
\* one of them or in none.
PriorStates ==
    { [completed |-> c,
       failed |-> [i \in 1..k |-> <<1, "DataTooSmall">>],
       in_progress |-> <<>>] :
      c \in {<<>>, <<2>>}, k \in 0..MaxPrior }

\* A write of the state file that was cut short: the file exists and does
\* not parse.
partial_write(st) == [exists |-> TRUE, readable |-> FALSE, data |-> st]

\* The first run of main finds such a state file, whole or cut short; the books are DRM books
\* without a version marker, and no output location is configured.
InitPrior ==
    /\ library = [b \in Books |-> [marked |-> FALSE, is_zip |-> FALSE, zip_len |-> 0]]
    /\ config = [output_directory |-> None, library_path |-> None]
    /\ current_dir = "parent"
    /\ outputs = {}
    /\ snapshot \in {save_processing_state(st) : st \in PriorStates}
                   \cup {partial_write(st) : st \in PriorStates}
    /\ run = 0
    /\ args = NoArgs
    /\ pc = "idle"
    /\ state = DefaultState
    /\ loaded = DefaultState
    /\ books_to_process = <<>>
    /\ next = 1
    /\ permits = 0
    /\ task = [b \in Books |-> IdleTask]
    /\ AuxIdle

SpecPrior == InitPrior /\ [][Next]_vars
(* ------------------- the driver at rest (other models) ---------------- *)
\* The command-line driver has not been started: the state the models of
\* the single functions below leave it in.
MainIdle ==
    /\ library = [b \in Books |-> [marked |-> FALSE, is_zip |-> FALSE, zip_len |-> 0]]
    /\ config = [output_directory |-> None, library_path |-> None]
    /\ current_dir = "parent"
    /\ outputs = {}
    /\ snapshot = NoSnapshot
    /\ run = 0
    /\ args = NoArgs
    /\ pc = "idle"
    /\ state = DefaultState
    /\ loaded = DefaultState
    /\ books_to_process = <<>>
    /\ next = 1
    /\ permits = 0
    /\ task = [b \in Books |-> IdleTask]

(* --------------------------- BookInfo::new ---------------------------- *)
\* File names are the sequences of their characters.
Epub == <<"e","p","u","b">>
Pdf == <<"p","d","f">>
\* The id of the book: the name of its directory.
BookId == <<"1">>
\* What a book directory holds: the key file, plain and version-marked
\* content files, an output file of an earlier decryption, a cover, and a
\* sub-directory.
DirEntries ==
    { [name |-> <<"1",".","d","a","t">>, is_file |-> TRUE],
      [name |-> <<"1",".","e","p","u","b">>, is_file |-> TRUE],
      [name |-> <<"1",".","p","d","f">>, is_file |-> TRUE],
      [name |-> <<"1",".","v","1","1",".","e","p","u","b">>, is_file |-> TRUE],
      [name |-> <<"1",".","v","2",".","p","d","f">>, is_file |-> TRUE],
      [name |-> <<"1","_","d","e","c","r","y","p","t","e","d",".","e","p","u","b">>, is_file |-> TRUE],
      [name |-> <<"c","o","v","e","r",".","j","p","g">>, is_file |-> TRUE],
      [name |-> <<"1",".","d">>, is_file |-> FALSE] }
\* The listings read_dir can give: the entries of the directory in any order.
Listings ==
    { l \in UNION {[1..n -> DirEntries] : n \in 0..MaxFiles} :
        \A i, j \in 1..Len(l) : l[i] = l[j] => i = j }

\* Option<String>
NoneStr == [some |-> FALSE, val |-> <<>>]
SomeStr(str) == [some |-> TRUE, val |-> str]

\* str::starts_with
starts_with(str, prefix) ==
    Len(prefix) <= Len(str) /\ SubSeq(str, 1, Len(prefix)) = prefix
\* Path::extension: what follows the last dot of the file name; None when
\* there is no dot, or when the only dot is the first character.
extension(name) ==
    LET dots == {i \in 1..Len(name) : name[i] = "."} IN
    IF dots = {} \/ dots = {1} THEN NoneStr
    ELSE LET last == CHOOSE i \in dots : \A j \in dots : j <= i
         IN SomeStr(SubSeq(name, last + 1, Len(name)))

\* A test that takes no file name for an encrypted one.
is_encrypted_name_never(name) == FALSE
\* filename_str.contains(".v")
is_encrypted_name(name) == contains(name, <<".", "v">>)

\* The loop of detect_format_and_filename over the listing, from entry i on,
\* and the fallbacks after it.
RECURSIVE scan_dir(_, _, _, _, _)
scan_dir(dir, book_id, i, plain_epub, plain_pdf) ==
    IF i > Len(dir)
    THEN IF plain_epub.some
         THEN [format |-> "epub", book_filename |-> plain_epub.val]
         ELSE IF plain_pdf.some
         THEN [format |-> "pdf", book_filename |-> plain_pdf.val]
         ELSE [format |-> "epub", book_filename |-> book_id \o <<".">> \o Epub]
    ELSE LET name == dir[i].name
             ext == extension(name)
             ext_str == to_lowercase(ext.val)
         IN IF dir[i].is_file /\ starts_with(name, book_id) /\ ext.some
            THEN IF ext_str = Epub
                 THEN IF is_encrypted_name(name)
                      THEN [format |-> "epub", book_filename |-> name]
                      ELSE scan_dir(dir, book_id, i + 1,
                                    IF plain_epub.some THEN plain_epub ELSE SomeStr(name),
                                    plain_pdf)
                 ELSE IF ext_str = Pdf
                 THEN IF is_encrypted_name(name)
                      THEN [format |-> "pdf", book_filename |-> name]
                      ELSE scan_dir(dir, book_id, i + 1, plain_epub,
                                    IF plain_pdf.some THEN plain_pdf ELSE SomeStr(name))
                 ELSE scan_dir(dir, book_id, i + 1, plain_epub, plain_pdf)
            ELSE scan_dir(dir, book_id, i + 1, plain_epub, plain_pdf)

\* BookInfo::detect_format_and_filename
detect_format_and_filename(dir, book_id) ==
    scan_dir(dir, book_id, 1, NoneStr, NoneStr)

\* BookInfo::new on a directory that can be read: Ok(BookInfo).
BookInfo_new(dir, book_id) ==
    LET found == detect_format_and_filename(dir, book_id) IN
    [pc |-> "returned", ok |-> TRUE, err |-> None,
     id |-> book_id, format |-> found.format,
     book_filename |-> found.book_filename,
     is_v11 |-> contains(found.book_filename, <<".", "v">>)]

\* The book directory is listed and BookInfo::new returns.
NewBookInfo ==
    /\ resolved.pc = "idle"
    /\ resolved' = BookInfo_new(book_dir, BookId)
    /\ UNCHANGED <<mainVars, guiVars, book_dir, v11Vars, keyVars, modeVars>>

InitResolve ==
    /\ MainIdle
    /\ GuiIdle
    /\ V11Idle
    /\ KeyIdle
    /\ ModeIdle
    /\ book_dir \in Listings
    /\ resolved = [pc |-> "idle"]

NextResolve == NewBookInfo

SpecResolve == InitResolve /\ [][NextResolve]_vars
(* -------------------------- decrypt_v11_book -------------------------- *)
\* The raw bytes of an archive entry, by what decides their decryption:
\* their number, whether the AES-CBC decryption of what follows the first
\* 16 bytes under the content key ends in a valid PKCS7 padding, and whether
\* the archive gives them back at all (by_index and read_to_end succeed).
EntryData ==
    { [len |-> 0,  pad_ok |-> FALSE, readable |-> TRUE],   \* an empty entry
      [len |-> 15, pad_ok |-> FALSE, readable |-> TRUE],   \* shorter than an IV
      [len |-> 16, pad_ok |-> FALSE, readable |-> TRUE],   \* an IV and nothing else
      [len |-> 32, pad_ok |-> TRUE,  readable |-> TRUE],   \* a DRM-wrapped entry
      [len |-> 32, pad_ok |-> FALSE, readable |-> TRUE],   \* a plain entry, or a wrong key
      [len |-> 40, pad_ok |-> FALSE, readable |-> TRUE],   \* not a whole number of blocks
      [len |-> 32, pad_ok |-> TRUE,  readable |-> FALSE] } \* a damaged entry
EntryNames == {"mimetype", "META-INF/container.xml", "OEBPS/ch1.xhtml"}
\* A byte string: raw bytes of the input, or the plaintext of such bytes.
Raw(d) == [of |-> d, decrypted |-> FALSE]
Plaintext(d) == [of |-> d, decrypted |-> TRUE]
\* The archives: entries with distinct names.
Archives ==
    { a \in UNION {[1..n -> [name : EntryNames, data : EntryData]] : n \in 0..MaxEntries} :
        \A i, j \in 1..Len(a) : a[i].name = a[j].name => i = j }

\* decrypt_v11_file_content: fewer than 16 bytes is an error; the rest is
\* decrypted with decrypt_padded_mut, which fails unless it is a positive
\* whole number of blocks ending in a valid padding.
decrypt_v11_file_content(d) ==
    IF d.len < 16 THEN [ok |-> FALSE, bytes |-> Raw(d)]
    ELSE IF (d.len - 16) % 16 # 0 \/ d.len - 16 = 0 \/ ~d.pad_ok
    THEN [ok |-> FALSE, bytes |-> Raw(d)]
    ELSE [ok |-> TRUE, bytes |-> Plaintext(d)]

\* A match whose Err arm gives up the bytes of the entry.
recover_entry_empty(res, encrypted_data) ==
    IF res.ok THEN res.bytes ELSE Raw([len |-> 0, pad_ok |-> FALSE, readable |-> TRUE])
\* match decrypt_v11_file_content(..) { Ok(data) => data, Err(_) => encrypted_data }
recover_entry(res, encrypted_data) ==
    IF res.ok THEN res.bytes ELSE encrypted_data

\* gui.rs:355-366: the content file is opened as a zip archive and the
\* output archive created.
V11Open ==
    /\ v11.pc = "idle"
    /\ v11' = [pc |-> "loop", i |-> 1, out |-> <<>>, ok |-> TRUE]
    /\ UNCHANGED <<mainVars, guiVars, resolveVars, keyVars, modeVars, archive>>

\* gui.rs:367-387: one pass of the loop: the entry is read (an error returns
\* from the function), decrypted or kept, and written under its name.
V11Entry ==
    /\ v11.pc = "loop"
    /\ v11.i <= Len(archive)
    /\ LET e == archive[v11.i]
           encrypted_data == Raw(e.data)
           decrypted_data == recover_entry(decrypt_v11_file_content(e.data),
                                           encrypted_data)
       IN IF ~e.data.readable
          THEN v11' = [v11 EXCEPT !.pc = "returned", !.ok = FALSE]
          ELSE v11' = [v11 EXCEPT !.i = @ + 1,
                                  !.out = Append(@, [name |-> e.name,
                                                     bytes |-> decrypted_data])]
    /\ UNCHANGED <<mainVars, guiVars, resolveVars, keyVars, modeVars, archive>>

\* gui.rs:389-392: the output archive is finished and returned.
V11Finish ==
    /\ v11.pc = "loop"
    /\ v11.i > Len(archive)
    /\ v11' = [v11 EXCEPT !.pc = "returned"]
    /\ UNCHANGED <<mainVars, guiVars, resolveVars, keyVars, modeVars, archive>>

InitV11 ==
    /\ MainIdle
    /\ GuiIdle
    /\ ResolveIdle
    /\ KeyIdle
    /\ ModeIdle
    /\ archive \in Archives
    /\ v11 = [pc |-> "idle"]

NextV11 == V11Open \/ V11Entry \/ V11Finish

SpecV11 == InitV11 /\ [][NextV11]_vars
(* --------------------------- key derivation --------------------------- *)
\* A text is the sequence of its characters, a character the sequence of
\* the bytes of its UTF-8 encoding.
AsciiChar(i) == <<33 + (i % 90)>>
WideChar(w) == IF w = 2 THEN <<195, 169>> ELSE <<237, 149, 156>>
\* A text of n characters, all of one byte but the p-th, which has w bytes
\* (p = 0: none).
KeyText(n, p, w) ==
    [i \in 1..n |-> IF i = p THEN WideChar(w) ELSE AsciiChar(i)]
WidePositions == {0, 1, KeyStart, KeyStart + 1, KeyEnd, KeyEnd + 1}
KeyTexts ==
    {KeyText(10, 0, 2)} \cup
    { KeyText(n, p, w) :
        n \in (KeyEnd - 1)..(KeyEnd + MaxExtra), p \in WidePositions, w \in {2, 3} }

\* str::as_bytes: the bytes of the characters, one after the other.
RECURSIVE as_bytes(_)
as_bytes(text) ==
    IF text = <<>> THEN <<>> ELSE Head(text) \o as_bytes(Tail(text))

\* The size of the key file that holds a plaintext of n bytes: the IV, and
\* the plaintext padded (PKCS7) to whole blocks.
FileLen(n) == BlockSize + BlockSize * ((n \div BlockSize) + 1)

\* The key files: too small ones, and those that hold a text; for the
\* latter, whether the decryption under the device key ends in a valid
\* padding, and whether the plaintext is valid UTF-8.
KeyFiles ==
    { [len |-> n, pad_ok |-> FALSE, utf8_ok |-> FALSE, text |-> <<>>] :
        n \in {0, 1, BlockSize, MinKeyFile - 1} }
    \cup
    { [len |-> FileLen(Len(as_bytes(t))), pad_ok |-> p, utf8_ok |-> u, text |-> t] :
        t \in KeyTexts, p \in BOOLEAN, u \in BOOLEAN }

\* Result<[u8; 16]>, or the panic of the thread.
Ok(key) == [kind |-> "ok", key |-> key, err |-> None]
Err(e) == [kind |-> "err", key |-> <<>>, err |-> e]
Panic == [kind |-> "panic", key |-> <<>>, err |-> None]

\* str::is_char_boundary (what str indexing checks): offset k is the start,
\* the end, or the first byte of a character (not a continuation byte).
is_char_boundary(bytes, k) ==
    \/ k = 0
    \/ k = Len(bytes)
    \/ k < Len(bytes) /\ ~(bytes[k + 1] >= 128 /\ bytes[k + 1] < 192)

\* main.rs:369-379 (gui.rs:306-317): the length test on plaintext_str.len(),
\* the slice &plaintext_str[68..84], and the copy into [0; 16].
key_from_plaintext(bytes) ==
    IF Len(bytes) < KeyEnd THEN Err("TooShort")
    ELSE IF ~is_char_boundary(bytes, KeyStart) \/ ~is_char_boundary(bytes, KeyEnd)
    THEN Panic
    ELSE LET key_bytes == SubSeq(bytes, KeyStart + 1, KeyEnd)
             copy_len == IF Len(key_bytes) < BlockSize THEN Len(key_bytes) ELSE BlockSize
         IN Ok([i \in 1..BlockSize |-> IF i <= copy_len THEN key_bytes[i] ELSE 0])

\* A size test that lets every key file through.
too_small_never(len) == FALSE
\* data_file.len() < 32
too_small(len) == len < MinKeyFile

\* decrypt_padded_mut on data_file[16..]: a positive whole number of blocks
\* that ends in a valid padding.
unpad_ok(kf) ==
    /\ kf.len - BlockSize > 0
    /\ (kf.len - BlockSize) % BlockSize = 0
    /\ kf.pad_ok

\* decrypt_key (main.rs:345-380)
decrypt_key(kf) ==
    IF too_small(kf.len) THEN Err("DataTooSmall")
    ELSE IF kf.len < BlockSize THEN Panic        \* &data_file[0..16]
    ELSE IF ~unpad_ok(kf) THEN Err("DecryptionFailed")
    ELSE IF ~kf.utf8_ok THEN Err("InvalidUtf8")
    ELSE key_from_plaintext(as_bytes(kf.text))

\* extract_key_from_dat (gui.rs:281-318)
extract_key_from_dat(kf) ==
    IF kf.len < MinKeyFile THEN Err("DataTooSmall")
    ELSE IF kf.len < BlockSize THEN Panic        \* &dat_data[0..16]
    ELSE IF ~unpad_ok(kf) THEN Err("DecryptionFailed")
    ELSE IF ~kf.utf8_ok THEN Err("InvalidUtf8")
    ELSE key_from_plaintext(as_bytes(kf.text))

\* main.rs:314 (path "cli") and gui.rs:264 (path "gui"): the key is derived;
\* an error returns from the decryption of the book (the ? operator), a
\* panic unwinds it.
KeyDerive(path) ==
    /\ kd.pc = "idle"
    /\ LET res == IF path = "cli" THEN decrypt_key(keyfile)
                  ELSE extract_key_from_dat(keyfile)
       IN kd' = [pc |-> IF res.kind = "ok" THEN "content"
                        ELSE IF res.kind = "err" THEN "returned" ELSE "panicked",
                 path |-> path, res |-> res,
                 content |-> FALSE, written |-> FALSE]
    /\ UNCHANGED <<mainVars, guiVars, resolveVars, v11Vars, modeVars, keyfile>>

\* main.rs:320 / gui.rs:268-272: the content is decrypted under the key; a
\* failure returns.
ContentDecrypt(ok) ==
    /\ kd.pc = "content"
    /\ kd' = [kd EXCEPT !.content = TRUE,
                        !.pc = IF ok THEN "write" ELSE "returned"]
    /\ UNCHANGED <<mainVars, guiVars, resolveVars, v11Vars, modeVars, keyfile>>

\* main.rs:326-341 / gui.rs:275-278: the output file is written.
WriteOutput ==
    /\ kd.pc = "write"
    /\ kd' = [kd EXCEPT !.written = TRUE, !.pc = "returned"]
    /\ UNCHANGED <<mainVars, guiVars, resolveVars, v11Vars, modeVars, keyfile>>

InitKey ==
    /\ MainIdle
    /\ GuiIdle
    /\ ResolveIdle
    /\ V11Idle
    /\ ModeIdle
    /\ keyfile \in KeyFiles
    /\ kd = [pc |-> "idle"]

NextKey ==
    \/ \E path \in {"cli", "gui"} : KeyDerive(path)
    \/ \E ok \in BOOLEAN : ContentDecrypt(ok)
    \/ WriteOutput

SpecKey == InitKey /\ [][NextKey]_vars
(* ------------------ the special modes of main (main.rs:97-105) -------- *)
\* if device_id.len() != 36
DeviceIdLen == 36
\* What the RIDI API answers to the request of CredentialManager::validate.
Responses ==
    {"connect_error", "http_401", "bad_json", "no_result", "empty_result", "devices"}
Invocations ==
    [diagnose : BOOLEAN, validate_only : BOOLEAN,
     device_id : {NoCred, Cred(DeviceIdLen), Cred(DeviceIdLen - 1)},
     user_idx : {NoCred, Cred(0), Cred(7)},
     response : Responses]

\* CredentialManager::validate: the format tests, the request, the status,
\* the body, and the test for a non-empty "result" array.
validate(device_id, user_idx, response) ==
    IF device_id.len # DeviceIdLen THEN "Invalid device ID format"
    ELSE IF user_idx.len = 0 THEN "User index cannot be empty"
    ELSE IF response = "connect_error" THEN "Failed to connect to RIDI API"
    ELSE IF response = "http_401" THEN "Invalid credentials"
    ELSE IF response = "bad_json" THEN "Failed to parse RIDI API response"
    ELSE IF response = "devices" THEN "ok"
    ELSE "No valid devices found"

\* load_or_create_config without a config file: the credentials of the
\* arguments, and an error when one of them is missing or empty.
config_has_credentials(inv) ==
    /\ inv.device_id.some /\ inv.device_id.len > 0
    /\ inv.user_idx.some /\ inv.user_idx.len > 0

LoggedAt(event, to) == sm' = [pc |-> to, log |-> Append(sm.log, event)]

\* main.rs:98-105: main enters run_diagnostics, the validate-only branch,
\* or the normal run.
ModeDispatch ==
    /\ sm.pc = "idle"
    /\ sm' = [sm EXCEPT !.pc = IF invocation.diagnose THEN "diag_locations"
                               ELSE IF invocation.validate_only THEN "vo_config"
                               ELSE "normal_run"]
    /\ UNCHANGED <<mainVars, guiVars, resolveVars, v11Vars, keyVars, invocation>>

\* main.rs:420-434: run_diagnostics looks for the library locations.
DiagLocations ==
    /\ sm.pc = "diag_locations"
    /\ LoggedAt("find_library_locations",
                IF invocation.device_id.some /\ invocation.user_idx.some
                THEN "diag_validate" ELSE "diag_done")
    /\ UNCHANGED <<mainVars, guiVars, resolveVars, v11Vars, keyVars, invocation>>

\* main.rs:437-448: with both credentials given they are validated; the
\* result is printed.
DiagValidate ==
    /\ sm.pc = "diag_validate"
    /\ LoggedAt(IF validate(invocation.device_id, invocation.user_idx,
                            invocation.response) = "ok"
                THEN "validate_ok" ELSE "validate_err",
                "diag_books")
    /\ UNCHANGED <<mainVars, guiVars, resolveVars, v11Vars, keyVars, invocation>>

\* main.rs:450-463: run_diagnostics looks for the books.
DiagFindBooks ==
    /\ sm.pc = "diag_books"
    /\ LoggedAt("find_books", "diag_done")
    /\ UNCHANGED <<mainVars, guiVars, resolveVars, v11Vars, keyVars, invocation>>

\* main.rs:469-470: run_diagnostics returns Ok.
DiagDone ==
    /\ sm.pc = "diag_done"
    /\ sm' = [sm EXCEPT !.pc = "returned_ok"]
    /\ UNCHANGED <<mainVars, guiVars, resolveVars, v11Vars, keyVars, invocation>>

\* main.rs:103: the validate-only branch loads the configuration.
ValidateOnlyConfig ==
    /\ sm.pc = "vo_config"
    /\ sm' = [sm EXCEPT !.pc = IF config_has_credentials(invocation)
                               THEN "vo_validate" ELSE "returned_err"]
    /\ UNCHANGED <<mainVars, guiVars, resolveVars, v11Vars, keyVars, invocation>>

\* main.rs:104: the credentials are validated and main returns the result.
ValidateOnly ==
    /\ sm.pc = "vo_validate"
    /\ IF validate(invocation.device_id, invocation.user_idx,
                   invocation.response) = "ok"
       THEN LoggedAt("validate_ok", "returned_ok")
       ELSE LoggedAt("validate_err", "returned_err")
    /\ UNCHANGED <<mainVars, guiVars, resolveVars, v11Vars, keyVars, invocation>>

InitModes ==
    /\ MainIdle
    /\ GuiIdle
    /\ ResolveIdle
    /\ V11Idle
    /\ KeyIdle
    /\ invocation \in Invocations
    /\ sm = [pc |-> "idle", log |-> <<>>]

NextModes ==
    \/ ModeDispatch
    \/ DiagLocations
    \/ DiagValidate
    \/ DiagFindBooks
    \/ DiagDone
    \/ ValidateOnlyConfig
    \/ ValidateOnly

SpecModes == InitModes /\ [][NextModes]_vars
(* ---------------------------------------------------------------------- *)
(* The GUI (gui.rs): the window of RidiculousApp, whose update runs on    *)
(* the UI thread, and the background threads start_decryption spawns.     *)
(* A step of a background thread is one critical section of the mutex     *)
(* around DecryptionProgress, or the decryption of one book between two   *)
(* critical sections.                                                     *)
(* ---------------------------------------------------------------------- *)
\* The texts a credential field can hold: empty or not.
FieldTexts == {"", "text"}

\* books.into_iter().filter(|book| !book.is_already_decrypted(&config)) over
\* the n books of a scan, of which those in dec are already decrypted.
books_to_decrypt_of(n, dec) == SelectSeq([i \in 1..n |-> i], LAMBDA b : b \notin dec)

\* A discover_books that leaves selected_books as it was.
discover_books_keeping_selection(found, n, dec) ==
    LET a1 == [app EXCEPT !.books = <<>>, !.error_message = ""]
        btd == books_to_decrypt_of(n, dec)
    IN IF ~found
       THEN [a1 EXCEPT !.error_message = "Error scanning library", !.state = "Setup"]
       ELSE IF n = 0
       THEN [a1 EXCEPT !.error_message = "No books found in library.", !.state = "Setup"]
       ELSE IF btd = <<>>
       THEN [a1 EXCEPT !.error_message = "All books are already decrypted!",
                       !.state = "Setup"]
       ELSE [a1 EXCEPT !.books = btd, !.state = "Ready"]
\* discover_books (gui.rs:80-130): the app after the call, when find_books
\* fails (~found) or returns n books of which those in dec are decrypted.
\* The state Discovering is set and left within the call.
discover_books(found, n, dec) ==
    LET a1 == [app EXCEPT !.books = <<>>, !.error_message = ""]
        btd == books_to_decrypt_of(n, dec)
    IN IF ~found
       THEN [a1 EXCEPT !.error_message = "Error scanning library", !.state = "Setup"]
       ELSE IF n = 0
       THEN [a1 EXCEPT !.error_message = "No books found in library.", !.state = "Setup"]
       ELSE IF btd = <<>>
       THEN [a1 EXCEPT !.error_message = "All books are already decrypted!",
                       !.state = "Setup"]
       ELSE [a1 EXCEPT !.books = btd,
                       !.selected_books = [i \in 1..Len(btd) |-> TRUE],
                       !.state = "Ready"]

\* gui.rs:424-445: the text fields of the Setup screen are edited.
EditCredentials(d, u) ==
    /\ app.state = "Setup"
    /\ <<d, u>> # <<app.device_id, app.user_idx>>
    /\ app' = [app EXCEPT !.device_id = d, !.user_idx = u]
    /\ UNCHANGED <<mainVars, resolveVars, v11Vars, keyVars, modeVars, progress, workers>>

\* gui.rs:457-460: Find Books is enabled by can_find and calls discover_books.
ClickFindBooks ==
    /\ app.state = "Setup"
    /\ app.device_id # "" /\ app.user_idx # ""
    /\ \E found \in BOOLEAN, n \in 0..MaxGuiBooks :
         \E dec \in SUBSET (1..n) : app' = discover_books(found, n, dec)
    /\ UNCHANGED <<mainVars, resolveVars, v11Vars, keyVars, modeVars, progress, workers>>

\* gui.rs:489-492: the checkbox of the book at index i (1-based here);
\* selected_books[i] out of range panics the UI thread.
ToggleBook(i) ==
    /\ app.state = "Ready"
    /\ i \in 1..Len(app.books)
    /\ app' = IF i \in 1..Len(app.selected_books)
              THEN [app EXCEPT !.selected_books[i] = ~@]
              ELSE [app EXCEPT !.state = "Panicked"]
    /\ UNCHANGED <<mainVars, resolveVars, v11Vars, keyVars, modeVars, progress, workers>>

\* gui.rs:507-514: Select All (v) and Deselect All (~v).
SetAll(v) ==
    /\ app.state = "Ready"
    /\ app' = [app EXCEPT !.selected_books = [i \in 1..Len(@) |-> v]]
    /\ app' # app
    /\ UNCHANGED <<mainVars, resolveVars, v11Vars, keyVars, modeVars, progress, workers>>

\* gui.rs:139-142: books.iter().zip(selected_books.iter()).filter_map(..):
\* the selected books, as far as the shorter of the two lists goes.
selected_of(a) ==
    LET m == IF Len(a.books) < Len(a.selected_books)
             THEN Len(a.books) ELSE Len(a.selected_books)
        idx == SelectSeq([i \in 1..m |-> i], LAMBDA i : a.selected_books[i])
    IN [k \in 1..Len(idx) |-> a.books[idx[k]]]

\* gui.rs:504: selected_books.iter().filter(|&&s| s).count()
selected_count ==
    Cardinality({i \in 1..Len(app.selected_books) : app.selected_books[i]})

\* gui.rs:149-158: the progress is reset under the lock.
reset_progress(p, n) ==
    [p EXCEPT !.current = 0, !.total = n, !.successful = 0, !.failed = 0,
              !.is_complete = FALSE, !.errors = <<>>]

\* gui.rs:518-523 and start_decryption (gui.rs:132-214): the Decrypt button
\* is shown when a book is selected; the call returns early on an empty
\* credential or an empty selection, else resets the progress, moves to
\* Decrypting and spawns the background thread.
ClickDecrypt ==
    /\ app.state = "Ready"
    /\ selected_count > 0
    /\ \E w \in Threads : workers[w].pc = "none"
    /\ LET btd == selected_of(app)
           w == CHOOSE x \in Threads :
                  /\ workers[x].pc = "none"
                  /\ \A y \in Threads : workers[y].pc = "none" => x <= y
       IN IF app.device_id = "" \/ app.user_idx = ""
          THEN /\ app' = [app EXCEPT !.error_message =
                                       "Please enter both Device ID and User Index"]
               /\ UNCHANGED <<progress, workers>>
          ELSE IF btd = <<>>
          THEN /\ app' = [app EXCEPT !.error_message = "No books selected"]
               /\ UNCHANGED <<progress, workers>>
          ELSE /\ progress' = reset_progress(progress, Len(btd))
               /\ app' = [app EXCEPT !.state = "Decrypting", !.error_message = ""]
               /\ workers' = [workers EXCEPT ![w] =
                                [pc |-> "name", todo |-> btd, i |-> 0, result |-> None]]
    /\ UNCHANGED <<mainVars, resolveVars, v11Vars, keyVars, modeVars>>

\* gui.rs:528-530: Back
ClickBack ==
    /\ app.state = "Ready"
    /\ app' = [app EXCEPT !.state = "Setup"]
    /\ UNCHANGED <<mainVars, resolveVars, v11Vars, keyVars, modeVars, progress, workers>>

\* gui.rs:175-179: the thread names the book it turns to.
WorkerName(w) ==
    /\ workers[w].pc = "name"
    /\ progress' = [progress EXCEPT !.current_book = workers[w].todo[workers[w].i + 1]]
    /\ workers' = [workers EXCEPT ![w].pc = "decrypt"]
    /\ UNCHANGED <<mainVars, resolveVars, v11Vars, keyVars, modeVars, app>>

\* decrypt_single_book (gui.rs:217-279): Ok when the book is skipped (a plain
\* archive, or its output exists); else the key is extracted from the key
\* file, the content is decrypted and the output is written, each of which
\* can return an error; the panic of the key extraction unwinds the call.
decrypt_single_book(skip, kf, content_ok, write_ok) ==
    IF skip THEN "ok"
    ELSE LET k == extract_key_from_dat(kf)
         IN IF k.kind # "ok" THEN k.kind
            ELSE IF ~content_ok \/ ~write_ok THEN "err"
            ELSE "ok"

\* gui.rs:182-184: the thread decrypts the book, outside the lock; a panic
\* ends the thread.
WorkerDecrypt(w) ==
    /\ workers[w].pc = "decrypt"
    /\ \E skip \in BOOLEAN, kf \in KeyFiles, content_ok \in BOOLEAN, write_ok \in BOOLEAN :
         LET r == decrypt_single_book(skip, kf, content_ok, write_ok)
         IN workers' = [workers EXCEPT ![w] =
                          IF r = "panic" THEN NoThread
                          ELSE [@ EXCEPT !.pc = "update", !.result = r]]
    /\ UNCHANGED <<mainVars, resolveVars, v11Vars, keyVars, modeVars, app, progress>>

\* A progress update that counts a failure without keeping its message.
progress_update_silent(p, i, book, result) ==
    IF result = "ok"
    THEN [p EXCEPT !.current = i + 1, !.successful = @ + 1]
    ELSE [p EXCEPT !.current = i + 1, !.failed = @ + 1]
\* gui.rs:187-197: under the lock, current = i + 1 and the result is counted.
progress_update(p, i, book, result) ==
    IF result = "ok"
    THEN [p EXCEPT !.current = i + 1, !.successful = @ + 1]
    ELSE [p EXCEPT !.current = i + 1, !.failed = @ + 1,
                   !.errors = Append(@, <<book, "error">>)]

\* gui.rs:187-201: the thread counts the result and goes to the next book,
\* or leaves the loop.
WorkerUpdate(w) ==
    /\ workers[w].pc = "update"
    /\ LET t == workers[w]
       IN /\ progress' = progress_update(progress, t.i, t.todo[t.i + 1], t.result)
          /\ workers' = [workers EXCEPT ![w] =
                           [@ EXCEPT !.i = t.i + 1, !.result = None,
                                     !.pc = IF t.i + 1 < Len(t.todo)
                                            THEN "name" ELSE "complete"]]
    /\ UNCHANGED <<mainVars, resolveVars, v11Vars, keyVars, modeVars, app>>

\* gui.rs:204-208: after the loop, is_complete is set under the lock.
WorkerComplete(w) ==
    /\ workers[w].pc = "complete"
    /\ progress' = [progress EXCEPT !.is_complete = TRUE]
    /\ workers' = [workers EXCEPT ![w].pc = "repaint"]
    /\ UNCHANGED <<mainVars, resolveVars, v11Vars, keyVars, modeVars, app>>

\* gui.rs:210-212: the last request_repaint, the drop of the runtime, and
\* the end of the thread.
WorkerExit(w) ==
    /\ workers[w].pc = "repaint"
    /\ workers' = [workers EXCEPT ![w] = NoThread]
    /\ UNCHANGED <<mainVars, resolveVars, v11Vars, keyVars, modeVars, app, progress>>

\* An update that leaves Decrypting whether or not is_complete is set.
UpdateDecrypting_eager ==
    /\ app.state = "Decrypting"
    /\ app' = [app EXCEPT !.state = "Complete"]
    /\ UNCHANGED <<mainVars, resolveVars, v11Vars, keyVars, modeVars, progress, workers>>
\* gui.rs:533-562: a frame in Decrypting reads the progress under the lock
\* and moves to Complete when is_complete is set; else it draws the bar and
\* requests the next frame.
UpdateDecrypting ==
    /\ app.state = "Decrypting"
    /\ app' = IF progress.is_complete THEN [app EXCEPT !.state = "Complete"] ELSE app
    /\ UNCHANGED <<mainVars, resolveVars, v11Vars, keyVars, modeVars, progress, workers>>

\* gui.rs:603-607: Decrypt More Books
ClickDecryptMore ==
    /\ app.state = "Complete"
    /\ app' = [app EXCEPT !.state = "Setup", !.books = <<>>, !.selected_books = <<>>]
    /\ UNCHANGED <<mainVars, resolveVars, v11Vars, keyVars, modeVars, progress, workers>>

\* run_gui: the window opens on RidiculousApp::default().
InitGui == MainIdle /\ AuxIdle

\* The steps of background thread w.
WorkerStep(w) ==
    \/ WorkerName(w)
    \/ WorkerDecrypt(w)
    \/ WorkerUpdate(w)
    \/ WorkerComplete(w)
    \/ WorkerExit(w)

NextGui ==
    \/ \E d \in FieldTexts, u \in FieldTexts : EditCredentials(d, u)
    \/ ClickFindBooks
    \/ \E i \in 1..MaxGuiBooks : ToggleBook(i)
    \/ \E v \in BOOLEAN : SetAll(v)
    \/ ClickDecrypt
    \/ ClickBack
    \/ \E w \in Threads : WorkerName(w)
    \/ \E w \in Threads : WorkerDecrypt(w)
    \/ \E w \in Threads : WorkerUpdate(w)
    \/ \E w \in Threads : WorkerComplete(w)
    \/ \E w \in Threads : WorkerExit(w)
    \/ UpdateDecrypting
    \/ ClickDecryptMore

SpecGui == InitGui /\ [][NextGui]_vars

\* The operating system runs every thread that can take a step, and eframe
\* draws a frame whenever one was requested: the worker requests one after
\* each book and at its end, a frame in Decrypting requests the next one.
SpecGuiFair ==
    /\ SpecGui
    /\ \A w \in Threads : WF_vars(WorkerStep(w))
    /\ WF_vars(UpdateDecrypting)
(* ====================================================================== *)
(*                              Properties                                *)
(* ====================================================================== *)
\* What the current run has appended to a list of the loaded state.
Appended(cur, base) == SubSeq(cur, Len(base) + 1, Len(cur))
run_completed == Appended(state.completed, loaded.completed)
run_failed == Appended(state.failed, loaded.failed)
\* Number of occurrences of a book id in completed / of its entries in failed.
CountCompleted(seq, b) == Cardinality({i \in 1..Len(seq) : seq[i] = b})
CountFailed(seq, b) == Cardinality({i \in 1..Len(seq) : seq[i][1] = b})
\* The books holding a permit, and those inside process_single_book.
Holders == {b \in Books : task[b].pc \in {"running", "returned"}}
Executing == {b \in Books : task[b].pc = "running"}
InBatch == args.batch_mode /\ pc \in {"batch_collect", "final_save", "done"}
WorkSet == {books_to_process[i] : i \in 1..Len(books_to_process)}

\* C1: in batch mode a book whose decryption returned an error is recorded in
\* failed with its message, the collecting loop goes on to the next handle,
\* and when process_books_batch has returned every book of the work set is
\* recorded: the failed ones in failed, the others in completed.
C1_FailureRecordedBatchGoesOn ==
    InBatch =>
      /\ \A i \in 1..Len(books_to_process) :
           LET b == books_to_process[i] IN
           (i < next) =>
             /\ task[b].pc = "recorded"
             /\ IF task[b].result = "ok"
                THEN Contains(run_completed, b)
                ELSE Contains(run_failed, <<b, task[b].result>>)
      /\ (pc \in {"final_save", "done"}) => next = Len(books_to_process) + 1
\* The first book of the batch failed, the second was decrypted, and both
\* are recorded.
C1_Witness ==
    /\ InBatch /\ pc = "final_save"
    /\ Len(books_to_process) = 2
    /\ task[books_to_process[1]].result = "DataTooSmall"
    /\ Contains(run_failed, <<books_to_process[1], "DataTooSmall">>)
    /\ task[books_to_process[2]].result = "ok"
    /\ Contains(run_completed, books_to_process[2])

\* C2: while process_books_batch runs, the books inside process_single_book
\* are at most max_parallel: every one of them holds a permit, and the free
\* permits plus the held ones are the max_parallel the semaphore was made of
\* (a permit is taken before the first call and given back after the return).
C2_AtMostMaxParallel ==
    (pc = "batch_collect") =>
      /\ Cardinality(Executing) <= args.parallel
      /\ permits >= 0
      /\ permits + Cardinality(Holders) = args.parallel
\* With one permit, one book is being decrypted while the other waits.
C2_Witness ==
    /\ pc = "batch_collect" /\ args.parallel = 1
    /\ \E b \in Books : task[b].pc = "running" /\ task[b].calls > 0
    /\ \E b \in Books : task[b].pc = "waiting"

\* C3: process_single_book calls the decryptor at most RetryBudget times,
\* and after the last of these calls it has returned.
C3_AtMostThreeCalls ==
    \A b \in Books :
      /\ task[b].calls <= RetryBudget
      /\ (task[b].calls = RetryBudget) => task[b].pc # "running"

Status(t) ==
    IF t.pc \in {"idle", "waiting"} THEN "Pending"
    ELSE IF t.pc \in {"running", "returned", "finished"} THEN "InProgress"
    ELSE IF t.result = "ok" THEN "Completed"
    ELSE "Failed"
Rank(status) ==
    IF status = "Pending" THEN 0 ELSE IF status = "InProgress" THEN 1 ELSE 2

\* C5: within one run the status of a book only moves forward, one stage at
\* a time, from Pending to InProgress to Completed or Failed, and a terminal
\* status is kept; when process_books_batch has returned, the run has
\* appended every id of the work set exactly once, to completed when the
\* book is Completed and to failed when it is Failed, and no other id.
C5_ReturnedRecordedOnce ==
    (InBatch /\ pc \in {"final_save", "done"}) =>
      \A b \in Books :
        /\ CountCompleted(run_completed, b) + CountFailed(run_failed, b)
             = IF b \in WorkSet THEN 1 ELSE 0
        /\ (b \in WorkSet) => Rank(Status(task[b])) = 2
        /\ (Status(task[b]) = "Completed") => CountCompleted(run_completed, b) = 1
        /\ (Status(task[b]) = "Failed") => CountFailed(run_failed, b) = 1
C5_StatusStep ==
    (run' = run) =>
      \A b \in Books :
        /\ Rank(Status(task'[b])) >= Rank(Status(task[b]))
        /\ Rank(Status(task'[b])) <= Rank(Status(task[b])) + 1
        /\ (Rank(Status(task[b])) = 2) => Status(task'[b]) = Status(task[b])
C5_StatusForwardRecordedOnce ==
    [] C5_ReturnedRecordedOnce /\ [][C5_StatusStep]_vars
\* A batch has returned with one book Completed and one Failed.
C5_Witness ==
    /\ InBatch /\ pc = "final_save"
    /\ \E b \in WorkSet : Status(task[b]) = "Completed"
    /\ \E b \in WorkSet : Status(task[b]) = "Failed"

\* C6: in a run with --resume and without --force, the work set holds
\* exactly the discovered books whose id is not in completed of the loaded
\* state: a completed book is left out whatever files exist, and a book that
\* is only in failed, or in no list, is in.
C6_ResumeSkipsCompletedOnly ==
    (run >= 1 /\ args.resume /\ ~args.force) =>
      \A b \in Books : (b \in WorkSet) <=> ~Contains(loaded.completed, b)
\* A resumed run that leaves out a completed book whose output file was
\* deleted (no check of is_already_decrypted holds for it) and takes a book
\* that the loaded state lists in failed.
C6_Witness ==
    /\ run >= 1 /\ args.resume /\ ~args.force
    /\ pc \in {"batch_spawn", "interactive"}
    /\ \E b \in Books :
         /\ Contains(loaded.completed, b)
         /\ \A loc \in Locs : <<b, loc>> \notin outputs
         /\ ~is_already_decrypted(b)
         /\ b \notin WorkSet
    /\ \E b \in Books :
         /\ CountFailed(loaded.failed, b) > 0
         /\ ~Contains(loaded.completed, b)
         /\ b \in WorkSet

\* C7: after a first run without --force that ran to its end with every
\* book decrypted and the output files still on disk, a second run without
\* --force has an empty work set.
C7_SecondRunStep ==
    ( /\ run = 1 /\ pc = "done" /\ ~args.force
      /\ state.failed = <<>>
      /\ \A i \in 1..Len(state.completed) :
           get_output_path(state.completed[i]) \in outputs
      /\ run' = 2 /\ ~args'.force )
    => books_to_process' = <<>>
C7_SecondRunEmpty == [][C7_SecondRunStep]_vars

\* C8: without --force a book for which is_already_decrypted holds never
\* enters process_single_book, and with --force every discovered book is in
\* the work set.
C8_DetectedNeverDispatched ==
    /\ ~args.force =>
         \A b \in Books :
           (task[b].pc = "running" /\ task[b].calls = 0) => ~is_already_decrypted(b)
    /\ (args.force /\ run >= 1) => WorkSet = Books

\* C9: a run that has begun to process a non-empty work set ends with the
\* ProcessingState flushed to the state file.
C9_RunEndsWithFinalFlush ==
    (pc \in {"done", "aborted"}) => snapshot = save_processing_state(state)

\* C10: no id occurs more than once in completed, and no id has more than
\* one entry in failed, in the state main holds and in the state file.
C10_NoDuplicateRecords ==
    \A st \in {state, snapshot.data} :
      \A b \in Books :
        /\ CountCompleted(st.completed, b) <= 1
        /\ CountFailed(st.failed, b) <= 1
\* The books a worker has started and whose result is not yet recorded.
MidFlight == {b \in Books : task[b].pc \in {"running", "returned", "finished"}}
ToSet(seq) == {seq[i] : i \in 1..Len(seq)}

\* C11: whenever the state file is rewritten, in_progress of the file holds
\* exactly the ids of the books that are mid-flight at that moment.
C11_FlushStep ==
    (snapshot' # snapshot) => ToSet(snapshot'.data.in_progress) = MidFlight'
C11_InProgressAtCheckpoint == [][C11_FlushStep]_vars

\* The number of records completed and failed hold together.
Records(st) == Len(st.completed) + Len(st.failed)
\* The step of the collecting loop of process_books_batch that records the
\* result of a handle.
CollectStep == pc = "batch_collect" /\ next' = next + 1

\* C20 (as claimed): the collecting loop flushes the state right after it
\* has recorded the N-th book of this run exactly when N is a multiple of
\* the checkpoint interval.
C20_RunCountStep ==
    CollectStep =>
      IF next % CheckpointInterval = 0
      THEN snapshot' = save_processing_state(state')
      ELSE snapshot' = snapshot
C20_FlushEveryFifthOfRun == [][C20_RunCountStep]_vars

\* C20 (amended): the collecting loop flushes the state right after it has
\* recorded a book exactly when the records then held by completed and
\* failed together, those of the loaded state included, are a multiple of
\* the checkpoint interval.
C20_TotalCountStep ==
    CollectStep =>
      IF Records(state') % CheckpointInterval = 0
      THEN snapshot' = save_processing_state(state')
      ELSE snapshot' = snapshot
C20_FlushEveryFifthRecord == [][C20_TotalCountStep]_vars
\* A resumed batch whose loaded state holds four records has flushed after
\* its first book, while its second book is not recorded yet.
C20_Witness ==
    /\ pc = "batch_collect" /\ args.resume
    /\ Records(loaded) = 4 /\ next = 2 /\ Len(books_to_process) = 2
    /\ Records(state) = CheckpointInterval
    /\ snapshot = save_processing_state(state)
\* The scheme the DRM version of a book asks for.
SchemeOfVersion(b) == IF is_v11(b) THEN "per_entry" ELSE "whole_file"
\* A call of decrypt_book_with_original_logic that got past decrypt_key has
\* run decrypt_book_content: it returned Ok, or failed in the write after it.
ContentDecrypted(t) ==
    /\ t.pc \in {"running", "returned"} /\ t.calls > 0
    /\ (t.result = "ok" \/ t.lastErr = "WriteTimedOut")

\* C14: the content of a book is decrypted by the scheme of its DRM version:
\* entry by entry for a V11 book, as one whole-file stream for a V1 book.
C14_DispatchFollowsVersion ==
    \A b \in Books :
      ContentDecrypted(task[b]) => decrypt_book_content_scheme(b) = SchemeOfVersion(b)

\* C18: every output file is written to the location already-decrypted
\* detection looks at: the output directory when one is configured, else
\* the library path, else the parent of the book directory.
C18_OutputAtDetectionLocation ==
    \A b \in Books :
      /\ (task[b].pc = "returned" /\ task[b].result = "ok") =>
           get_output_path(b) = detect_output_path(b)
      /\ \A loc \in Locs :
           (<<b, loc>> \in outputs) =>
             loc = IF config.output_directory # None THEN "outdir"
                   ELSE IF config.library_path # None THEN "libpath"
                   ELSE "parent"
\* The names {id}.v<N>.epub and {id}.v<N>.pdf, N one or two digits.
Digits == {"0","1","2","3","4","5","6","7","8","9"}
VersionMarked(name) ==
    \E k \in 1..2, e \in {Epub, Pdf} :
      /\ Len(name) = Len(BookId) + 2 + k + 1 + Len(e)
      /\ SubSeq(name, 1, Len(BookId) + 2) = BookId \o <<".", "v">>
      /\ \A j \in 1..k : name[Len(BookId) + 2 + j] \in Digits
      /\ SubSeq(name, Len(BookId) + 2 + k + 1, Len(name)) = <<".">> \o e
PlainNames == {BookId \o <<".">> \o Epub, BookId \o <<".">> \o Pdf}
\* The files of the listed directory.
FilesOf(dir) == {dir[i].name : i \in {j \in 1..Len(dir) : dir[j].is_file}}
MarkedFiles == {n \in FilesOf(book_dir) : VersionMarked(n)}

\* C12: when the directory holds a version-marked content file, the content
\* file of the BookInfo is one of the version-marked files of the directory,
\* wherever the listing has them; the plain file {id}.epub or {id}.pdf is
\* the content file only when the directory holds no version-marked file.
C12_VersionMarkedPreferred ==
    (resolved.pc = "returned") =>
      /\ resolved.ok
      /\ (MarkedFiles # {}) =>
           (resolved.book_filename \in MarkedFiles /\ resolved.is_v11)
      /\ (resolved.book_filename \in PlainNames) => MarkedFiles = {}
\* The listing has the plain file, and the output of an earlier decryption,
\* before the version-marked file, which is the one returned.
C12_Witness ==
    /\ resolved.pc = "returned"
    /\ Len(book_dir) = 3
    /\ book_dir[1].name \in PlainNames
    /\ VersionMarked(book_dir[3].name)
    /\ resolved.book_filename = book_dir[3].name

\* C13: when the directory holds neither a version-marked nor a plain
\* content file of the book, BookInfo::new fails with InvalidPath; the
\* content file of a BookInfo it returns is a file of the directory.
C13_NoContentFileIsInvalidPath ==
    (resolved.pc = "returned") =>
      /\ (MarkedFiles = {} /\ FilesOf(book_dir) \cap PlainNames = {}) =>
           (~resolved.ok /\ resolved.err = "InvalidPath")
      /\ resolved.ok => resolved.book_filename \in FilesOf(book_dir)
\* C15: when every entry of the archive can be read, decrypt_v11_book
\* returns an archive with as many entries as the input, under the same
\* names in the same order; an entry whose decryption fails, one shorter
\* than 16 bytes among them, has its original bytes, one whose decryption
\* succeeds has its plaintext; and the function fails only on an entry that
\* cannot be read, never on one that cannot be decrypted.
C15_EntriesPreserved ==
    (v11.pc = "returned") =>
      /\ v11.ok <=> \A i \in 1..Len(archive) : archive[i].data.readable
      /\ v11.ok =>
           /\ Len(v11.out) = Len(archive)
           /\ \A i \in 1..Len(archive) :
                /\ v11.out[i].name = archive[i].name
                /\ (archive[i].data.len < 16) =>
                     v11.out[i].bytes = Raw(archive[i].data)
                /\ IF decrypt_v11_file_content(archive[i].data).ok
                   THEN v11.out[i].bytes = Plaintext(archive[i].data)
                   ELSE v11.out[i].bytes = Raw(archive[i].data)
\* An archive of a short entry and a wrapped one: the first is kept, the
\* second decrypted.
C15_Witness ==
    /\ v11.pc = "returned" /\ v11.ok
    /\ Len(archive) = 2
    /\ archive[1].data.len = 15
    /\ v11.out[1].bytes = Raw(archive[1].data)
    /\ v11.out[2].bytes = Plaintext(archive[2].data)
\* C16: for a key file shorter than 32 bytes, the empty one among them, the
\* key derivation returns an error, it does not panic, and the decryption of
\* the book returns without having decrypted content or written an output.
C16_ShortKeyFileIsError ==
    (kd.pc # "idle" /\ keyfile.len < MinKeyFile) =>
      /\ kd.res.kind = "err"
      /\ kd.pc = "returned"
      /\ ~kd.content /\ ~kd.written
\* The key derivation has been run on an empty key file.
C16_Witness ==
    /\ keyfile.len = 0
    /\ kd.pc = "returned" /\ kd.res = Err("DataTooSmall")

\* The key the claim names: the bytes of the characters at positions 68 to
\* 84 (exclusive), the first 16 of them, zero-padded to 16.
ExpectedKey(text) ==
    LET b == as_bytes(SubSeq(text, KeyStart + 1, KeyEnd)) IN
    [i \in 1..BlockSize |-> IF i <= Len(b) THEN b[i] ELSE 0]

\* C17: when the key file decrypts to valid UTF-8, a text of at least 84
\* characters gives the key formed from its characters 68 to 84, and a text
\* of fewer than 84 characters gives an error.
C17_KeyFromCharacters ==
    (kd.pc # "idle" /\ ~(keyfile.len < MinKeyFile) /\ unpad_ok(keyfile)
       /\ keyfile.utf8_ok) =>
      IF Len(keyfile.text) >= KeyEnd
      THEN kd.res = Ok(ExpectedKey(keyfile.text))
      ELSE kd.res.kind = "err"
\* C19: in validate-only mode and in diagnose mode with credentials, once a
\* validation has not succeeded no library and no book discovery follows.
C19_FailedValidationStopsDiscovery ==
    \A i, j \in 1..Len(sm.log) :
      (i < j /\ sm.log[i] = "validate_err") =>
        sm.log[j] \notin {"find_library_locations", "find_books"}
\* C21: while process_books_batch runs, the state and the state file change
\* only in a step of the collecting loop, which records the result of one
\* handle: it appends one record and nothing else; the steps of the worker
\* tasks (acquire, decrypt, end of task) leave both unchanged.
C21_CollectorStep ==
    (pc = "batch_collect" /\ (state' # state \/ snapshot' # snapshot)) =>
      /\ next' = next + 1
      /\ Records(state') = Records(state) + 1
      /\ state'.in_progress = state.in_progress
      /\ \A b \in Books :
           (task'[b] # task[b]) =>
             (b = books_to_process[next] /\ task'[b].pc = "recorded")
      /\ snapshot' \in {snapshot, save_processing_state(state')}
C21_SingleOwner == [][C21_CollectorStep]_vars
\* The collecting loop has recorded the first book while the task of the
\* second is inside process_single_book.
C21_Witness ==
    /\ pc = "batch_collect" /\ next = 2
    /\ Records(state) = Records(loaded) + 1
    /\ \E b \in Books : task[b].pc = "running" /\ task[b].calls > 0

\* No task is inside process_single_book or has a result to hand over, a
\* book is still to be recorded, and no waiting task can take a permit.
Stalled ==
    /\ pc = "batch_collect"
    /\ next <= Len(books_to_process)
    /\ \A b \in Books : task[b].pc \notin {"running", "returned", "finished"}
    /\ ~\E b \in Books : task[b].pc = "waiting" /\ can_acquire(permits)

\* C22: for every max_parallel, zero included, process_books_batch never
\* comes to a stop before its last book is recorded: while a book is still
\* to be recorded and no call of process_single_book is under way, a
\* waiting task can take a permit.
C22_BatchNeverStalls == ~Stalled

\* The books of the work set recorded so far, in the order of submission.
RecordedPrefix == SubSeq(books_to_process, 1, next - 1)
IsOk(b) == task[b].result = "ok"
IsErr(b) == task[b].result # "ok"

\* C23: whatever the order in which the tasks finish, what the run has
\* appended to completed and failed is what the outcomes of the books give
\* when they are taken in the order of submission: the result of a book is
\* recorded only when those of all books submitted before it are.
C23_RecordedInSubmissionOrder ==
    InBatch =>
      /\ run_completed = SelectSeq(RecordedPrefix, IsOk)
      /\ LET f == SelectSeq(RecordedPrefix, IsErr)
         IN run_failed = [i \in 1..Len(f) |-> <<f[i], task[f[i]].result>>]
      /\ \A i \in 1..Len(books_to_process) :
           (task[books_to_process[i]].pc = "recorded") <=> (i < next)
\* The task of the second book has finished while the first book is still
\* being decrypted: nothing is recorded yet.
C23_Witness ==
    /\ pc = "batch_collect" /\ next = 1 /\ Len(books_to_process) = 2
    /\ task[books_to_process[2]].pc = "finished"
    /\ task[books_to_process[1]].pc = "running"
    /\ state = loaded

\* C24: completed and failed are disjoint, in the state main holds and in
\* the state file.
C24_CompletedFailedDisjoint ==
    \A st \in {state, snapshot.data} :
      \A b \in Books :
        ~(CountCompleted(st.completed, b) > 0 /\ CountFailed(st.failed, b) > 0)
\* C25 (as claimed): no run, with or without --resume, rewrites the state
\* file so that an id the file listed in completed is no longer listed.
C25_RewriteKeepsStep ==
    (snapshot' # snapshot /\ snapshot.exists /\ snapshot.readable) =>
      \A b \in Books :
        Contains(snapshot.data.completed, b) => Contains(snapshot'.data.completed, b)
C25_CompletedNeverLost == [][C25_RewriteKeepsStep]_vars

\* C25 (amended): a run started with --resume that has read the state file
\* never rewrites it so that an id the file listed in completed is no
\* longer listed: every file it writes lists the completed ids it loaded.
C25_ResumeRewriteKeepsStep ==
    (args.resume /\ snapshot' # snapshot /\ snapshot.exists /\ snapshot.readable) =>
      /\ \A b \in Books :
           Contains(snapshot.data.completed, b) => Contains(snapshot'.data.completed, b)
      /\ \A b \in Books :
           Contains(loaded.completed, b) => Contains(snapshot'.data.completed, b)
C25_ResumeKeepsCompleted == [][C25_ResumeRewriteKeepsStep]_vars
\* A resumed run has ended with a file that lists the completed id it
\* loaded and the one it added.
C25_Witness ==
    /\ pc = "done" /\ args.resume
    /\ Len(loaded.completed) > 0
    /\ Len(snapshot.data.completed) > Len(loaded.completed)
    /\ \A b \in Books : Contains(loaded.completed, b) =>
                           Contains(snapshot.data.completed, b)

\* C26: a run with --resume that finds a state file it cannot read or parse
\* does not fail: it starts from the empty state and every discovered book
\* is in its work set, the books the file lists as completed among them.
C26_CorruptSnapshotStartsEmpty ==
    (run >= 1 /\ args.resume /\ snapshot.exists /\ ~snapshot.readable) =>
      /\ loaded = DefaultState
      /\ WorkSet = Books
      /\ pc \in {"batch_spawn", "batch_collect", "interactive", "final_save",
                  "aborted"}
\* A resumed run, without --force, over a cut-short file that lists book 2
\* as completed has book 2 in its work set.
C26_Witness ==
    /\ run >= 1 /\ args.resume /\ ~args.force
    /\ snapshot.exists /\ ~snapshot.readable
    /\ Contains(snapshot.data.completed, 2)
    /\ pc \in {"batch_spawn", "interactive"}
    /\ Contains(books_to_process, 2)
\* The background threads that are alive, and those that have not yet set
\* is_complete.
Alive == {w \in Threads : workers[w].pc # "none"}
Updaters == {w \in Threads : workers[w].pc \in {"name", "decrypt", "update", "complete"}}

\* C27: in every state the progress behind the mutex has
\* current = successful + failed, as many errors as failed, current <= total,
\* and is_complete only when current = total.
C27_ProgressConsistent ==
    /\ progress.current = progress.successful + progress.failed
    /\ Len(progress.errors) = progress.failed
    /\ progress.current <= progress.total
    /\ progress.is_complete => progress.current = progress.total
\* A run over two books, one decrypted and one failed, has been completed.
C27_Witness ==
    /\ progress.is_complete
    /\ progress.total = 2
    /\ progress.successful = 1
    /\ progress.failed = 1

\* C28: once the GUI is in Decrypting, the worker eventually sets
\* is_complete and the GUI eventually is in Complete, whatever the outcome
\* of each book.
C28_DecryptingLeadsToComplete ==
    (app.state = "Decrypting") ~> (progress.is_complete /\ app.state = "Complete")

\* C29 (as claimed): at most one background thread is alive at any time.
C29_AtMostOneThread == Cardinality(Alive) <= 1

\* C29 (amended): at most one background thread that has not yet set
\* is_complete is alive at any time, and a thread is spawned only in a step
\* from Ready in which no such thread is alive.
C29_SpawnStep ==
    /\ Cardinality(Updaters') <= 1
    /\ (\E w \in Threads : workers[w].pc = "none" /\ workers'[w].pc # "none") =>
         (app.state = "Ready" /\ Updaters = {})
C29_AtMostOneUpdater == [][C29_SpawnStep]_vars
\* A thread is at work on the progress while the thread of the run before,
\* which has set is_complete, has not ended.
C29_Witness ==
    /\ Cardinality(Alive) = 2
    /\ Cardinality(Updaters) = 1
    /\ app.state = "Decrypting"

\* C30: whenever the GUI is in Ready, books is not empty and selected_books
\* has as many elements as books.
C30_ReadySelectionMatches ==
    app.state = "Ready" =>
      /\ Len(app.books) > 0
      /\ Len(app.selected_books) = Len(app.books)
\* The GUI is in Ready over one book, after a run over two books has been
\* completed and Decrypt More has been taken.
C30_Witness ==
    /\ app.state = "Ready"
    /\ progress.is_complete
    /\ progress.total = 2
    /\ Len(app.books) = 1
    /\ Len(app.selected_books) = 1
=============================================================================
